---------------------------- MODULE Spec2Model ----------------------------
(***************************************************************************)
(* SmartFiler: the batch file organizer (file_organizer.py), with the      *)
(* configuration editor (config_editor.py) and generator (generate.py)     *)
(* that write the configuration it reads.                                  *)
(*                                                                         *)
(* A file name, an extension, a glob pattern and a destination are         *)
(* strings, modelled as sequences of one-character strings, so that        *)
(* suffix extraction, lower-casing, glob matching and the numbered rename  *)
(* are computed character by character as pathlib, str and fnmatch do.     *)
(* A path is the sequence of its segments below the source directory (the  *)
(* resolved source_path of organize_directory); <<>> is that directory.    *)
(* A destination may hold '..' segments, which pathlib keeps: the tree is  *)
(* keyed by the paths without them, and a path is resolved to its entry.   *)
(* The directory tree is one filesystem owned by the process: a rename     *)
(* either happens or fails with no effect.                                 *)
(***************************************************************************)
EXTENDS Integers, Sequences, FiniteSets, TLC

\* ------------------------------------------------------------------ bounds
\* Files (and other entries) placed in the directory snapshot before a run.
MaxFiles == 3
\* Categories declared in the RuleSet.
MaxCats == 2

\* ----------------------------------------------------------------- strings
Upper == <<"A", "B", "C", "D", "E", "F", "G", "H", "I", "J", "K", "L", "M",
          "N", "O", "P", "Q", "R", "S", "T", "U", "V", "W", "X", "Y", "Z">>
Lower == <<"a", "b", "c", "d", "e", "f", "g", "h", "i", "j", "k", "l", "m",
          "n", "o", "p", "q", "r", "s", "t", "u", "v", "w", "x", "y", "z">>

\* str.lower() on one character
LowerChar(c) ==
  IF \E i \in 1..Len(Upper) : Upper[i] = c
    THEN Lower[CHOOSE i \in 1..Len(Upper) : Upper[i] = c]
    ELSE c

\* str.lower()
LowerStr(s) == [i \in 1..Len(s) |-> LowerChar(s[i])]

\* str.rfind('.') + 1: the position of the last dot, 0 when there is none
LastDot(s) ==
  IF \E i \in 1..Len(s) : s[i] = "."
    THEN CHOOSE i \in 1..Len(s) : s[i] = "." /\ \A j \in (i+1)..Len(s) : s[j] # "."
    ELSE 0

\* PurePath.suffix: from the last dot, unless the dot leads or ends the name
PathSuffix(name) ==
  LET i == LastDot(name)
  IN  IF 1 < i /\ i < Len(name) THEN SubSeq(name, i, Len(name)) ELSE <<>>

\* PurePath.stem: the name without its suffix
PathStem(name) ==
  LET i == LastDot(name)
  IN  IF 1 < i /\ i < Len(name) THEN SubSeq(name, 1, i - 1) ELSE name

Digits == <<"0", "1", "2", "3", "4", "5", "6", "7", "8", "9">>

\* str(int) of a natural number
RECURSIVE Dec(_)
Dec(n) == IF n < 10 THEN <<Digits[n + 1]>> ELSE Dec(n \div 10) \o <<Digits[(n % 10) + 1]>>

\* fnmatch.fnmatch(name, pat) for patterns of literals, '*' and '?' (posix:
\* normcase is the identity, the match is case-sensitive and anchored at both ends)
RECURSIVE FnMatch(_, _)
FnMatch(name, pat) ==
  IF pat = <<>> THEN name = <<>>
  ELSE IF Head(pat) = "*"
    THEN FnMatch(name, Tail(pat)) \/ (name # <<>> /\ FnMatch(Tail(name), pat))
  ELSE IF Head(pat) = "?"
    THEN name # <<>> /\ FnMatch(Tail(name), Tail(pat))
  ELSE name # <<>> /\ Head(name) = Head(pat) /\ FnMatch(Tail(name), Tail(pat))

\* ------------------------------------------------------------- classifier
\* dict.get(key, default) on a JSON object, a function from its keys
Get(obj, key, default) == IF key \in DOMAIN obj THEN obj[key] ELSE default

\* Python's None (no string: a string's elements are single characters)
None == <<"None">>

\* line 49: ext in extensions if extensions else False
ExtMatch(name, settings) ==
  LET ext == LowerStr(PathSuffix(name))
      extensions == Get(settings, "extensions", {})
  IN  IF extensions # {} THEN ext \in extensions ELSE FALSE

\* lines 52-53: any(fnmatch(filename, pattern) for pattern in patterns) if patterns else False
PatternMatch(name, settings) ==
  LET patterns == Get(settings, "patterns", <<>>)
  IN  IF patterns # <<>>
        THEN \E i \in 1..Len(patterns) : FnMatch(name, patterns[i])
        ELSE FALSE

\* matches_category with mode 'both' combining as 'either' does
MatchesCategoryBothAsEither(name, settings) ==
  LET match_mode == Get(settings, "match_mode", "either")
      ext_match == ExtMatch(name, settings)
      pattern_match == PatternMatch(name, settings)
  IN  IF match_mode \in {"both", "either"} THEN ext_match \/ pattern_match
      ELSE IF match_mode = "extension" THEN ext_match
      ELSE IF match_mode = "pattern" THEN pattern_match
      ELSE FALSE

\* lines 55-65: the match mode's combination of the two results
MatchesCategory(name, settings) ==
  LET match_mode == Get(settings, "match_mode", "either")
      ext_match == ExtMatch(name, settings)
      pattern_match == PatternMatch(name, settings)
  IN  IF match_mode = "both" THEN ext_match /\ pattern_match
      ELSE IF match_mode = "either" THEN ext_match \/ pattern_match
      ELSE IF match_mode = "extension" THEN ext_match
      ELSE IF match_mode = "pattern" THEN pattern_match
      ELSE FALSE

\* The value returned for the i-th category (line 71); settings['destination'] of a
\* category without that key raises KeyError
Selected(categories, i) ==
  IF "destination" \in DOMAIN categories[i].settings
    THEN [raised |-> FALSE, category |-> categories[i].name,
          dest_folder |-> categories[i].settings["destination"]]
    ELSE [raised |-> TRUE, category |-> categories[i].name, dest_folder |-> None]

\* categorize_file returning the last category that matches
CategorizeFileLastMatch(name, categories) ==
  LET hits == {i \in 1..Len(categories) : MatchesCategory(name, categories[i].settings)}
  IN  IF hits = {}
        THEN [raised |-> FALSE, category |-> None, dest_folder |-> None]
        ELSE Selected(categories, CHOOSE i \in hits : \A j \in hits : i >= j)

\* categorize_file: config['categories'] is the ordered mapping of the JSON file, a
\* sequence of [name, settings] in declaration order
CategorizeFile(name, categories) ==
  LET hits == {i \in 1..Len(categories) : MatchesCategory(name, categories[i].settings)}
  IN  IF hits = {}
        THEN [raised |-> FALSE, category |-> None, dest_folder |-> None]
        ELSE Selected(categories, CHOOSE i \in hits : \A j \in hits : i <= j)

\* should_ignore
SystemFiles ==
  { <<"T","h","u","m","b","s",".","d","b">>,
    <<"D","e","s","k","t","o","p",".","i","n","i">>,
    <<".","D","S","_","S","t","o","r","e">> }

\* should_ignore without the system-file check
ShouldIgnoreHiddenOnly(name, cfg) ==
  Get(Get(cfg, "rules", <<>>), "ignore_hidden", TRUE) /\ name # <<>> /\ Head(name) = "."

ShouldIgnore(name, cfg) ==
  LET rules == Get(cfg, "rules", <<>>)
  IN  IF Get(rules, "ignore_hidden", TRUE) /\ name # <<>> /\ Head(name) = "."
        THEN TRUE
      ELSE IF Get(rules, "ignore_system", TRUE) /\ name \in SystemFiles
        THEN TRUE
      ELSE FALSE

\* -------------------------------------------------------------- filesystem
\* The tree below the source directory: a function from the paths that exist to
\* their entries. A directory has id 0; a regular file has a positive id that it
\* keeps when it is renamed, and its st_mtime, counted in whole months of local
\* time since January 1970.
DirEntry == [kind |-> "dir", id |-> 0, mtime |-> 0]

FileEntry(i, m) == [kind |-> "file", id |-> i, mtime |-> m]

\* Path.is_dir(), for the path of an entry
IsDir(tree, p) == p = <<>> \/ (p \in DOMAIN tree /\ tree[p].kind = "dir")

\* The entry the system resolves a path to, from directory cur on: a '..' segment
\* steps from a directory to its parent, and each segment but the last has to name
\* a directory. pathlib keeps '..' segments, so two paths can name one entry.
RECURSIVE Walk(_, _, _)
Walk(tree, cur, rest) ==
  IF rest = <<>> THEN [ok |-> TRUE, path |-> cur]
  ELSE IF ~IsDir(tree, cur) THEN [ok |-> FALSE, path |-> cur]
  ELSE IF Head(rest) = <<".", ".">>
    THEN (IF cur = <<>> THEN [ok |-> FALSE, path |-> cur]
          ELSE Walk(tree, SubSeq(cur, 1, Len(cur) - 1), Tail(rest)))
  ELSE Walk(tree, Append(cur, Head(rest)), Tail(rest))

\* Path.exists()
Exists(tree, p) ==
  LET w == Walk(tree, <<>>, p)
  IN  w.ok /\ (w.path = <<>> \/ w.path \in DOMAIN tree)

\* Path.is_file()
IsFile(tree, p) == p \in DOMAIN tree /\ tree[p].kind = "file"

Prefixes(p) == {SubSeq(p, 1, k) : k \in 1..Len(p)}

\* Splitting a relative path string at '/'; pathlib drops empty and '.' segments
RECURSIVE Segments(_, _)
Segments(s, cur) ==
  IF s = <<>> THEN (IF cur = <<>> \/ cur = <<".">> THEN <<>> ELSE <<cur>>)
  ELSE IF Head(s) = "/"
    THEN (IF cur = <<>> \/ cur = <<".">> THEN <<>> ELSE <<cur>>) \o Segments(Tail(s), <<>>)
  ELSE Segments(Tail(s), Append(cur, Head(s)))

\* base_dir / dest_folder, for a relative dest_folder
JoinPath(base, s) == base \o Segments(s, <<>>)

\* strftime('%Y-%m') of datetime.fromtimestamp(st_mtime)
Pad(s, width) == [i \in 1..(width - Len(s)) |-> "0"] \o s

\* the month counted from 0, as tm_mon is
DateFolderMonthFromZero(mtime) ==
  Pad(Dec(1970 + (mtime \div 12)), 4) \o <<"-">> \o Pad(Dec(mtime % 12), 2)

DateFolder(mtime) ==
  Pad(Dec(1970 + (mtime \div 12)), 4) \o <<"-">> \o Pad(Dec((mtime % 12) + 1), 2)

\* lines 102-109: the destination directory
DestDir(tree, file_path, dest_folder, cfg) ==
  LET dest_dir == JoinPath(<<>>, dest_folder)
  IN  IF Get(Get(cfg, "rules", <<>>), "create_subdirs_by_date", FALSE)
        THEN Append(dest_dir, DateFolder(tree[file_path].mtime))
        ELSE dest_dir

\* The directories dest_dir.mkdir(parents=True, exist_ok=True) passes through
\* from cur on, segment by segment; it creates those that are missing
RECURSIVE Visited(_, _)
Visited(cur, rest) ==
  IF rest = <<>> THEN {cur}
  ELSE {cur} \cup Visited(IF Head(rest) = <<".", ".">>
                            THEN SubSeq(cur, 1, Len(cur) - 1)
                            ELSE Append(cur, Head(rest)),
                          Tail(rest))

\* dest_dir.mkdir(parents=True, exist_ok=True) raises when a regular file is in the way
MkdirRaises(tree, d) == \E q \in Visited(<<>>, d) : IsFile(tree, q)

Mkdir(tree, d) ==
  [p \in DOMAIN tree \cup (Visited(<<>>, d) \ {<<>>}) |->
     IF p \in DOMAIN tree THEN tree[p] ELSE DirEntry]

\* the destination directory created in a dry run too
AfterMkdirAlways(tree, d, dry_run) == Mkdir(tree, d)

\* lines 112-113: the tree after the destination directory is created, which a dry
\* run skips
AfterMkdir(tree, d, dry_run) == IF dry_run THEN tree ELSE Mkdir(tree, d)

\* lines 116-122: the first free candidate
FileName(p) == p[Len(p)]

\* the numbering off by one
NumberedFromTwo(file_path, dest_dir, counter) ==
  Append(dest_dir,
         PathStem(FileName(file_path)) \o <<"_">> \o Dec(counter + 1) \o PathSuffix(FileName(file_path)))

Numbered(file_path, dest_dir, counter) ==
  Append(dest_dir,
         PathStem(FileName(file_path)) \o <<"_">> \o Dec(counter) \o PathSuffix(FileName(file_path)))

RECURSIVE Probe(_, _, _, _, _)
Probe(tree, file_path, dest_dir, dest_path, counter) ==
  IF Exists(tree, dest_path) /\ dest_path # file_path
    THEN Probe(tree, file_path, dest_dir, Numbered(file_path, dest_dir, counter), counter + 1)
    ELSE dest_path

\* no look at what exists
ResolveConflictBlind(tree, file_path, dest_dir) == Append(dest_dir, FileName(file_path))

ResolveConflict(tree, file_path, dest_dir) ==
  Probe(tree, file_path, dest_dir, Append(dest_dir, FileName(file_path)), 1)

\* shutil.move(src, dst) where dst does not exist or is src: os.rename, onto the
\* entry dst resolves to
Move(tree, src, dst) ==
  LET to == Walk(tree, <<>>, dst).path
  IN  [p \in (DOMAIN tree \ {src}) \cup {to} |-> IF p = to THEN tree[src] ELSE tree[p]]

\* ---------------------------------------------------------------- organizer
VARIABLES
  fs,        \* the directory tree
  cfgfile,   \* the configuration file: its JSON object, or NoFile
  config,    \* FileOrganizer.config
  stats,     \* FileOrganizer.stats
  args,      \* the parsed command line
  directory, \* main: the directory to organize
  files,     \* organize_directory: the enumerated files not handled yet
  handled,   \* per handled file, in order: what organize_file did and returned
  pc,        \* where the process is
  exit_code, \* the process's exit status, -1 while it runs
  call,      \* the last direct call of a classifier function and its result
  fs0,       \* the directory tree when the process started
  runs,      \* the earlier runs of the organizer over this tree, in order
  current_category  \* ConfigEditor.current_category

vars == <<fs, cfgfile, config, stats, args, directory, files, handled, pc, exit_code, call, fs0,
          runs, current_category>>

\* No configuration file, no configuration loaded
NoFile == [nofile |-> TRUE]

IsNoFile(f) == "nofile" \in DOMAIN f

\* lines 22-27
ZeroStats == [processed |-> 0, moved |-> 0, skipped |-> 0, errors |-> 0]

Bump(st, counter) == [st EXCEPT ![counter] = @ + 1]

\* What the environment can make fail while one file is handled: creating the
\* destination directory, reading the source's metadata, the move itself
Faults == {"none", "mkdir", "stat", "move"}

\* organize_file(file_path, base_dir, dry_run) on tree, with stats st: the tree and
\* stats it leaves, the value it returns, the state the file ends in; state Raised is
\* an exception leaving organize_file
OrganizeFile(tree, st, cfg, file_path, dry_run, fault) ==
  LET name == FileName(file_path)
      c == CategorizeFile(name, cfg["categories"])
      by_date == Get(Get(cfg, "rules", <<>>), "create_subdirs_by_date", FALSE)
      dest_dir == DestDir(tree, file_path, c.dest_folder, cfg)
      mkdir_raises == MkdirRaises(tree, dest_dir)
                        \/ (fault = "mkdir" /\ ~Exists(tree, dest_dir))
      tree1 == AfterMkdir(tree, dest_dir, dry_run)
      dest_path == ResolveConflict(tree1, file_path, dest_dir)
      raise == [tree |-> tree, stats |-> st, ret |-> None, state |-> "Raised",
                category |-> c.category]
  IN  IF ShouldIgnore(name, cfg)
        THEN [tree |-> tree, stats |-> Bump(st, "skipped"), ret |-> None,
              state |-> "Ignored", category |-> None]
      ELSE IF c.raised THEN raise
      ELSE IF c.category = None
        THEN [tree |-> tree, stats |-> Bump(st, "skipped"), ret |-> None,
              state |-> "Unmatched", category |-> None]
      ELSE IF by_date /\ fault = "stat" THEN raise
      ELSE IF ~dry_run /\ mkdir_raises THEN raise
      ELSE IF dry_run
        THEN [tree |-> tree1, stats |-> st, ret |-> dest_path, state |-> "WouldMove",
              category |-> c.category]
      ELSE IF fault = "move"
        THEN [tree |-> tree1, stats |-> Bump(st, "errors"), ret |-> None,
              state |-> "Errored", category |-> c.category]
      ELSE [tree |-> Move(tree1, file_path, dest_path), stats |-> Bump(st, "moved"),
            ret |-> dest_path, state |-> "Moved", category |-> c.category]

\* lines 151-155: the files organize_directory enumerates
Enumerate(tree, recursive) ==
  IF recursive
    THEN {p \in DOMAIN tree : IsFile(tree, p)}
    ELSE {p \in DOMAIN tree : Len(p) = 1 /\ IsFile(tree, p)}

\* The directory a command line or rules.target_directory names: the tree's root,
\* a path that does not exist, or a regular file; "" is none given
Directories == {"dir", "nodir", "file"}

\* main, lines 196-206, with FileOrganizer.__init__ and load_config
Main ==
  /\ pc = "main"
  /\ IF IsNoFile(cfgfile)
       THEN /\ pc' = "exit" /\ exit_code' = 1
            /\ UNCHANGED <<config, stats, directory>>
       ELSE /\ config' = cfgfile
            /\ stats' = ZeroStats
            /\ directory' = IF args.directory = ""
                              THEN Get(Get(cfgfile, "rules", <<>>), "target_directory", "")
                              ELSE args.directory
            /\ IF directory' = ""
                 THEN pc' = "exit" /\ exit_code' = 1
                 ELSE pc' = "organize" /\ UNCHANGED exit_code
  /\ UNCHANGED <<fs, cfgfile, args, files, handled, call, fs0, runs,
                 current_category>>

\* organize_directory, lines 141-155
OrganizeDirectory ==
  /\ pc = "organize"
  /\ IF directory = "nodir"
       THEN /\ pc' = "returned" /\ exit_code' = 0
            /\ UNCHANGED files
     ELSE IF directory = "file" /\ ~args.recursive
       THEN /\ pc' = "raised" /\ exit_code' = 1
            /\ UNCHANGED files
     ELSE /\ pc' = "loop"
          /\ files' = IF directory = "file" THEN {}
                      ELSE Enumerate(fs, args.recursive)
          /\ UNCHANGED exit_code
  /\ UNCHANGED <<fs, cfgfile, config, stats, args, directory, handled, call, fs0, runs,
                 current_category>>

\* One iteration of the loop of lines 158-160
ProcessFile ==
  /\ pc = "loop"
  /\ \E file_path \in files, fault \in Faults :
       LET r == OrganizeFile(fs, Bump(stats, "processed"), config, file_path,
                             args.dry_run, fault)
       IN  /\ fs' = r.tree
           /\ stats' = r.stats
           /\ handled' = Append(handled, [file |-> file_path, id |-> fs[file_path].id,
                                          state |-> r.state, ret |-> r.ret,
                                          category |-> r.category])
           /\ files' = files \ {file_path}
           /\ IF r.state = "Raised"
                THEN pc' = "raised" /\ exit_code' = 1
                ELSE UNCHANGED <<pc, exit_code>>
  /\ UNCHANGED <<cfgfile, config, args, directory, call, fs0, runs,
                 current_category>>

\* lines 162-168, and the process's end
Summary ==
  /\ pc = "loop"
  /\ files = {}
  /\ pc' = "done"
  /\ exit_code' = 0
  /\ UNCHANGED <<fs, cfgfile, config, stats, args, directory, files, handled, call, fs0, runs,
                 current_category>>

Next == Main \/ OrganizeDirectory \/ ProcessFile \/ Summary

\* ------------------------------------------------------------ initial states
a_png == <<"a", ".", "p", "n", "g">>
a_1_png == <<"a", "_", "1", ".", "p", "n", "g">>
dot_a_png == <<".", "a", ".", "p", "n", "g">>
Thumbs_db == <<"T", "h", "u", "m", "b", "s", ".", "d", "b">>
Images == <<"I", "m", "a", "g", "e", "s">>
Inbox == <<"I", "n", "b", "o", "x">>

\* The regular files a snapshot is drawn from; a file's id is its place here
FilePool ==
  << [path |-> <<a_png>>, mtime |-> 638],
     [path |-> <<Images, a_png>>, mtime |-> 638],
     [path |-> <<Images, a_1_png>>, mtime |-> 639],
     [path |-> <<Inbox, a_png>>, mtime |-> 638],
     [path |-> <<dot_a_png>>, mtime |-> 638],
     [path |-> <<Thumbs_db>>, mtime |-> 638],
     [path |-> <<Images>>, mtime |-> 638] >>

\* A snapshot: at most MaxFiles of the files, none below another, with the
\* directories that hold them
Snapshots ==
  {S \in SUBSET (1..Len(FilePool)) :
     /\ Cardinality(S) <= MaxFiles
     /\ \A i, j \in S : i # j => FilePool[i].path \notin Prefixes(FilePool[j].path)}

TreeOf(S) ==
  LET paths == {FilePool[i].path : i \in S}
      dirs == (UNION {Prefixes(p) : p \in paths}) \ paths
  IN  [p \in paths \cup dirs |->
         IF p \in paths
           THEN LET i == CHOOSE k \in S : FilePool[k].path = p
                IN  FileEntry(i, FilePool[i].mtime)
           ELSE DirEntry]

\* The categories a RuleSet is drawn from
CategoryPool ==
  << [name |-> <<"i","m","a","g","e","s">>,
      settings |-> [extensions |-> {<<".","p","n","g">>}, patterns |-> <<>>,
                    match_mode |-> "extension", destination |-> Images]],
     [name |-> <<"a","n","y">>,
      settings |-> [extensions |-> {}, patterns |-> << <<"a","*">>, <<"T","*">> >>,
                    match_mode |-> "pattern", destination |-> <<>>]] >>

OneToOne(q) == \A i, j \in DOMAIN q : i # j => q[i] # q[j]

\* An ordered mapping of at most MaxCats categories, its keys distinct
CategoryLists(pool) ==
  {[i \in DOMAIN q |-> pool[q[i]]] :
     q \in {r \in UNION {[1..n -> 1..Len(pool)] : n \in 0..MaxCats} : OneToOne(r)}}

Rules(h, s, d, r) ==
  [ignore_hidden |-> h, ignore_system |-> s, create_subdirs_by_date |-> d,
   dry_run |-> r, target_directory |-> "dir"]

\* The global rules: every setting of the two ignore flags, and the editor's
\* defaults with date partitioning and with the dry_run rule set
RulesPool ==
  {Rules(h, s, FALSE, FALSE) : h \in BOOLEAN, s \in BOOLEAN}
    \cup {Rules(TRUE, TRUE, TRUE, FALSE), Rules(TRUE, TRUE, FALSE, TRUE)}

\* The state before main runs, for a configuration file and a command line
Start(file, cmdline) ==
  /\ \E S \in Snapshots : fs = TreeOf(S)
  /\ cfgfile = file
  /\ args = cmdline
  /\ config = NoFile
  /\ stats = ZeroStats
  /\ directory = ""
  /\ files = {}
  /\ handled = <<>>
  /\ pc = "main"
  /\ exit_code = -1
  /\ call = [fn |-> "none"]
  /\ fs0 = fs
  /\ runs = <<>>
  /\ current_category = None

\* Batch runs over the tree's root
Init ==
  \E cats \in CategoryLists(CategoryPool), rules \in RulesPool,
     recursive \in BOOLEAN, dry_run \in BOOLEAN :
       Start([categories |-> cats, rules |-> rules],
             [directory |-> "dir", recursive |-> recursive, dry_run |-> dry_run])

Spec == Init /\ [][Next]_vars

\* --------------------------------------------------- the classifier, called
\* File names and category settings the classifier functions are called with
A_PNG == <<"A", ".", "P", "N", "G">>
S_png == <<"S", ".", "p", "n", "g">>
b_txt == <<"b", ".", "t", "x", "t">>

NamePool == {a_png, A_PNG, S_png, b_txt, dot_a_png, <<"a">>, <<"a", ".">>}

ExtensionSets == { {}, {<<".","p","n","g">>}, {<<".","t","x","t">>, <<".","P","N","G">>} }

PatternLists == { <<>>, << <<"a","*">> >>, << <<"?",".","t","x","t">>, <<"S","*","g">> >> }

MatchModes == {"both", "either", "extension", "pattern", "all"}

SettingsPool ==
  {[extensions |-> e, patterns |-> p, match_mode |-> m, destination |-> Images] :
     e \in ExtensionSets, p \in PatternLists, m \in MatchModes}
  \cup {[extensions |-> e, patterns |-> p, destination |-> Images] :
          e \in ExtensionSets, p \in PatternLists}

\* Categories of a hand-written or generated configuration: destinations set,
\* blank and left out
WideCategoryPool ==
  << [name |-> <<"i","m","a","g","e","s">>,
      settings |-> [extensions |-> {<<".","p","n","g">>}, patterns |-> <<>>,
                    match_mode |-> "extension", destination |-> Images]],
     [name |-> <<"a","n","y">>,
      settings |-> [extensions |-> {}, patterns |-> << <<"a","*">>, <<"S","*">> >>,
                    match_mode |-> "pattern", destination |-> <<>>]],
     [name |-> <<"t","e","x","t">>,
      settings |-> [extensions |-> {<<".","t","x","t">>}, patterns |-> << <<"?",".","*">> >>,
                    match_mode |-> "both", destination |-> Inbox]],
     [name |-> <<"r","a","w">>,
      settings |-> [extensions |-> {<<".","p","n","g">>, <<".","t","x","t">>},
                    patterns |-> << <<"S","*">> >>, match_mode |-> "either"]] >>

\* matches_category(file_path, category_settings), called on its own
CallMatchesCategory ==
  /\ pc = "classifier"
  /\ \E name \in NamePool, settings \in SettingsPool :
       call' = [fn |-> "matches_category", name |-> name, settings |-> settings,
                result |-> MatchesCategory(name, settings)]
  /\ pc' = "classified"
  /\ UNCHANGED <<fs, cfgfile, config, stats, args, directory, files, handled,
                 exit_code, fs0, runs,
                 current_category>>

\* categorize_file(file_path), called on its own
CallCategorizeFile ==
  /\ pc = "classifier"
  /\ \E name \in NamePool :
       call' = [fn |-> "categorize_file", name |-> name,
                result |-> CategorizeFile(name, config["categories"])]
  /\ pc' = "classified"
  /\ UNCHANGED <<fs, cfgfile, config, stats, args, directory, files, handled,
                 exit_code, fs0, runs,
                 current_category>>

NextClassifier == CallMatchesCategory \/ CallCategorizeFile

\* An organizer constructed from a configuration file, its classifier called
InitClassifier ==
  /\ \E cats \in CategoryLists(WideCategoryPool) :
       /\ cfgfile = [categories |-> cats, rules |-> Rules(TRUE, TRUE, FALSE, FALSE)]
       /\ config = cfgfile
  /\ fs = <<>>
  /\ fs0 = fs
  /\ args = [directory |-> "dir", recursive |-> FALSE, dry_run |-> FALSE]
  /\ stats = ZeroStats
  /\ directory = ""
  /\ files = {}
  /\ handled = <<>>
  /\ pc = "classifier"
  /\ exit_code = -1
  /\ call = [fn |-> "none"]
  /\ runs = <<>>
  /\ current_category = None

SpecClassifier == InitClassifier /\ [][NextClassifier]_vars

\* ------------------------------------------------------------------ claims
Last(q) == q[Len(q)]

Front(q) == SubSeq(q, 1, Len(q) - 1)

\* A step that handles one file
Handles == Len(handled') = Len(handled) + 1

FilePaths(tree) == {p \in DOMAIN tree : tree[p].kind = "file"}

FileIds(tree) == {tree[p].id : p \in FilePaths(tree)}

\* C3: matches_category combines ext_match and pattern_match by the match mode:
\* 'both' is their conjunction, 'either' their disjunction, 'extension' is
\* ext_match, 'pattern' is pattern_match; ext_match is false for an empty extension
\* set and pattern_match is false for an empty pattern list.
C3_TruthTable ==
  call.fn = "matches_category" /\ "match_mode" \in DOMAIN call.settings =>
    LET ext == LowerStr(PathSuffix(call.name))
        ext_match == call.settings.extensions # {} /\ ext \in call.settings.extensions
        pattern_match ==
          \E i \in 1..Len(call.settings.patterns) :
            FnMatch(call.name, call.settings.patterns[i])
        m == call.settings.match_mode
    IN  /\ m = "both" => call.result = (ext_match /\ pattern_match)
        /\ m = "either" => call.result = (ext_match \/ pattern_match)
        /\ m = "extension" => call.result = ext_match
        /\ m = "pattern" => call.result = pattern_match
        /\ call.settings.extensions = {} => ~ExtMatch(call.name, call.settings)
        /\ call.settings.patterns = <<>> => ~PatternMatch(call.name, call.settings)

\* C3's case: mode 'both' with the extension matching and no pattern matching
C3_Witness ==
  /\ call.fn = "matches_category"
  /\ "match_mode" \in DOMAIN call.settings
  /\ call.settings.match_mode = "both"
  /\ ExtMatch(call.name, call.settings)
  /\ call.settings.patterns # <<>>
  /\ ~PatternMatch(call.name, call.settings)
  /\ call.result = FALSE

\* The categories of the loaded RuleSet that match a name, by declaration index
Matching(name) ==
  {i \in 1..Len(config["categories"]) :
     MatchesCategory(name, config["categories"][i].settings)}

FirstMatching(name) == CHOOSE i \in Matching(name) : \A j \in Matching(name) : i <= j

\* C2: categorize_file returns the first category, in declaration order, whose rule
\* matches the file, never a later one, with that category's destination; it
\* returns (None, None) exactly when no category matches. (A first match that has
\* no 'destination' key raises instead of returning.)
C2_FirstMatchWins ==
  call.fn = "categorize_file" =>
    IF Matching(call.name) = {}
      THEN call.result = [raised |-> FALSE, category |-> None, dest_folder |-> None]
      ELSE LET first == config["categories"][FirstMatching(call.name)]
           IN  /\ call.result.category = first.name
               /\ call.result.category # None
               /\ call.result.raised = ("destination" \notin DOMAIN first.settings)
               /\ ~call.result.raised => call.result.dest_folder = first.settings.destination

\* C2's case: two categories match the file and the earlier one is returned
C2_Witness ==
  /\ call.fn = "categorize_file"
  /\ Cardinality(Matching(call.name)) >= 2
  /\ ~call.result.raised
  /\ call.result.category = config["categories"][FirstMatching(call.name)].name
  /\ \E j \in Matching(call.name) :
       /\ j > FirstMatching(call.name)
       /\ "destination" \in DOMAIN config["categories"][j].settings
       /\ config["categories"][j].settings.destination # call.result.dest_folder

\* C9: a first matching category whose destination is blank (empty or missing) is
\* returned with its own name as the destination; a non-blank destination is
\* returned unchanged.
C9_DestinationFallback ==
  call.fn = "categorize_file" /\ Matching(call.name) # {} =>
    LET first == config["categories"][FirstMatching(call.name)]
        blank == \/ "destination" \notin DOMAIN first.settings
                 \/ first.settings.destination = <<>>
    IN  /\ ~call.result.raised
        /\ call.result.dest_folder =
             IF blank THEN first.name ELSE first.settings.destination

\* C1: no step of a run overwrites a filesystem entry: every path that exists
\* before and after a step holds the entry it held, so a move's destination was
\* free or was the source itself; every regular file is kept, each at one path, and
\* the number of regular files does not change.
C1_NoOverwrite ==
  [][ /\ \A p \in DOMAIN fs \cap DOMAIN fs' : fs'[p] = fs[p]
      /\ FileIds(fs') = FileIds(fs)
      /\ Cardinality(FilePaths(fs')) = Cardinality(FilePaths(fs))
      /\ Cardinality(FilePaths(fs')) = Cardinality(FileIds(fs')) ]_vars

\* C1's case: a real run has moved two source files of the same name, and they
\* ended at different paths
C1_Witness ==
  /\ pc = "done"
  /\ ~args.dry_run
  /\ \E i, j \in DOMAIN handled :
       /\ i # j
       /\ handled[i].state = "Moved" /\ handled[j].state = "Moved"
       /\ FileName(handled[i].file) = FileName(handled[j].file)
       /\ handled[i].ret # handled[j].ret
       /\ handled[i].ret # handled[i].file
       /\ fs[handled[i].ret].id = handled[i].id
       /\ fs[handled[j].ret].id = handled[j].id

C5_DryRunFrame == args.dry_run => fs = fs0

\* C5's case: a dry run has finished and reported a move into a directory that
\* does not exist
C5_Witness ==
  /\ args.dry_run
  /\ pc = "done"
  /\ \E i \in DOMAIN handled :
       /\ handled[i].state = "WouldMove"
       /\ Front(handled[i].ret) # <<>>
       /\ Front(handled[i].ret) \notin DOMAIN fs

\* C6: in a real run a filesystem failure while one file is handled counts one
\* error and the run goes on: no failure leaves organize_file as an exception.
C6_ErrorIsolation ==
  ~args.dry_run =>
    /\ pc # "raised"
    /\ \A i \in DOMAIN handled : handled[i].state # "Raised"
    /\ stats.errors = Cardinality({i \in DOMAIN handled : handled[i].state = "Errored"})

\* The ignore policy in the rules' terms
IgnoredByPolicy(name) ==
  \/ config.rules.ignore_hidden /\ Head(name) = "."
  \/ config.rules.ignore_system /\ name \in { <<"T","h","u","m","b","s",".","d","b">>,
                                               <<"D","e","s","k","t","o","p",".","i","n","i">>,
                                               <<".","D","S","_","S","t","o","r","e">> }

\* C7: a file the ignore policy covers ends Ignored whatever the categories are:
\* handling it changes nothing on disk, adds one to processed and to skipped only,
\* and the file stays where it is.
C7_IgnorePolicy ==
  [][ /\ Handles /\ IgnoredByPolicy(FileName(Last(handled').file)) =>
           /\ Last(handled').state = "Ignored"
           /\ Last(handled').ret = None
           /\ fs' = fs
           /\ stats' = [stats EXCEPT !.processed = @ + 1, !.skipped = @ + 1]
      /\ \A i \in DOMAIN handled' :
           handled'[i].state = "Ignored" =>
             IsFile(fs', handled'[i].file) /\ fs'[handled'[i].file].id = handled'[i].id ]_vars

\* C7's case: an ignored file that a category of the RuleSet matches
C7_Witness ==
  \E i \in DOMAIN handled :
    /\ handled[i].state = "Ignored"
    /\ Matching(FileName(handled[i].file)) # {}
    /\ stats.skipped >= 1

\* C8: a dry run counts every file it would move as moved.
C8_DryRunCountsMoved ==
  args.dry_run /\ pc \in {"loop", "done"} =>
    stats.moved = Cardinality({i \in DOMAIN handled : handled[i].state = "WouldMove"})

\* C10: with rules.dry_run set in the loaded configuration a run changes nothing
\* on disk, whether or not the command line asks for a dry run.
C10_RuleDryRun ==
  ~IsNoFile(config) /\ config.rules.dry_run => fs = fs0

\* ------------------------------------------------------------ command lines
\* The rules of a configuration file, for each directory its target_directory
\* can name
CliRules ==
  {[Rules(TRUE, TRUE, FALSE, FALSE) EXCEPT !.target_directory = t] :
     t \in Directories \cup {""}}

\* The organizer started with and without a configuration file, the source
\* directory given on the command line, left to the rules, or given by neither
InitCli ==
  \E file \in {NoFile} \cup {[categories |-> cats, rules |-> rules] :
                               cats \in {<<>>, <<CategoryPool[1]>>}, rules \in CliRules},
     d \in Directories \cup {""}, recursive \in BOOLEAN, dry_run \in BOOLEAN :
       Start(file, [directory |-> d, recursive |-> recursive, dry_run |-> dry_run])

SpecCli == InitCli /\ [][Next]_vars

\* C11: when the source directory is not usable (none is given and the rules'
\* target_directory is empty, or the one named does not exist or is not a
\* directory) the process ends with a non-zero exit code, its counters at 0 and
\* the tree untouched; a run that completes exits with code 0.
C11_FatalSourceDirectory ==
  ~IsNoFile(cfgfile) /\ exit_code # -1 =>
    LET d == IF args.directory = "" THEN cfgfile.rules.target_directory
             ELSE args.directory
    IN  /\ d \in {"", "nodir", "file"} =>
             exit_code # 0 /\ stats = ZeroStats /\ fs = fs0 /\ handled = <<>>
        /\ pc = "done" => exit_code = 0

\* C12: with no configuration file the organizer loads an empty category set
\* with the default rules and goes on instead of ending with an error.
C12_MissingConfigIsFirstRun ==
  IsNoFile(cfgfile) /\ pc # "main" =>
    /\ ~IsNoFile(config)
    /\ config.categories = <<>>
    /\ config.rules.ignore_hidden /\ config.rules.ignore_system
    /\ ~config.rules.create_subdirs_by_date /\ ~config.rules.dry_run
    /\ ~(pc = "exit" /\ exit_code = 1 /\ args.directory # "")

\* C13: a matched file resolves into base_dir/destination/YYYY-MM, the year and
\* month of its last-modified time, when create_subdirs_by_date is set, and into
\* base_dir/destination itself when it is not.
C13_DatePartition ==
  \A i \in DOMAIN handled :
    handled[i].state \in {"Moved", "WouldMove"} =>
      LET h == handled[i]
          m == fs0[h.file].mtime
          year == 1970 + (m \div 12)
          month == (m % 12) + 1
          D(k) == Digits[k + 1]
          yyyy_mm == <<D(year \div 1000), D((year \div 100) % 10), D((year \div 10) % 10),
                       D(year % 10), "-", D(month \div 10), D(month % 10)>>
          destination ==
            config.categories[FirstMatching(FileName(h.file))].settings.destination
      IN  Front(h.ret) = IF config.rules.create_subdirs_by_date
                           THEN Append(JoinPath(<<>>, destination), yyyy_mm)
                           ELSE JoinPath(<<>>, destination)

\* C13's case: a file last modified in March 2023 was moved into Images/2023-03
C13_Witness ==
  \E i \in DOMAIN handled :
    /\ handled[i].state = "Moved"
    /\ config.rules.create_subdirs_by_date
    /\ fs0[handled[i].file].mtime = (2023 - 1970) * 12 + 2
    /\ Front(handled[i].ret) = <<Images, <<"2", "0", "2", "3", "-", "0", "3">> >>
    /\ fs[handled[i].ret].id = handled[i].id

\* C15: when organize_directory completes, each enumerated file was handled once
\* and ended Ignored, Unmatched, Moved (in a dry run: reported as the move it
\* would make) or Errored, processed is the number of enumerated files, and
\* processed = moved + skipped + errors, in a dry run as in a real one.
C15_RunAccounting ==
  pc = "done" =>
    /\ {handled[i].file : i \in DOMAIN handled} = Enumerate(fs0, args.recursive)
    /\ \A i, j \in DOMAIN handled : i # j => handled[i].id # handled[j].id
    /\ \A i \in DOMAIN handled :
         handled[i].state \in {"Ignored", "Unmatched", "Errored",
                               IF args.dry_run THEN "WouldMove" ELSE "Moved"}
    /\ stats.processed = Cardinality(Enumerate(fs0, args.recursive))
    /\ stats.processed = stats.moved + stats.skipped + stats.errors

\* ------------------------------------------------------------------ re-runs
\* The organizer started again over the tree a completed run left, with the same
\* configuration file, directory and traversal mode, as a real run
Rerun ==
  /\ pc = "done"
  /\ runs = <<>>
  /\ runs' = Append(runs, [args |-> args, fs0 |-> fs0, handled |-> handled,
                           stats |-> stats, exit_code |-> exit_code])
  /\ args' = [args EXCEPT !.dry_run = FALSE]
  /\ config' = NoFile
  /\ stats' = ZeroStats
  /\ directory' = ""
  /\ files' = {}
  /\ handled' = <<>>
  /\ pc' = "main"
  /\ exit_code' = -1
  /\ fs0' = fs
  /\ UNCHANGED <<fs, cfgfile, call, current_category>>

NextRerun == Next \/ Rerun

\* Categories whose destinations name directories of the tree: one by a pattern
\* that a numbered name no longer matches, one by extension, and one whose
\* destination is Images spelled through Inbox
RerunCategoryPool ==
  << [name |-> <<"s","h","o","r","t">>,
      settings |-> [extensions |-> {}, patterns |-> << <<"?",".","p","n","g">> >>,
                    match_mode |-> "pattern", destination |-> Inbox]],
     [name |-> <<"i","m","a","g","e","s">>,
      settings |-> [extensions |-> {<<".","p","n","g">>}, patterns |-> <<>>,
                    match_mode |-> "extension", destination |-> Images]],
     [name |-> <<"s","o","r","t","e","d">>,
      settings |-> [extensions |-> {<<".","p","n","g">>}, patterns |-> <<>>,
                    match_mode |-> "extension",
                    destination |-> Inbox \o <<"/", ".", ".", "/">> \o Images]] >>

\* Snapshots of files named a.png, in the root and in Images and Inbox
InitRerun ==
  /\ \E cats \in CategoryLists(RerunCategoryPool), recursive \in BOOLEAN, dry_run \in BOOLEAN :
       Start([categories |-> cats, rules |-> Rules(TRUE, TRUE, FALSE, FALSE)],
             [directory |-> "dir", recursive |-> recursive, dry_run |-> dry_run])
  /\ \A p \in DOMAIN fs : IsFile(fs, p) => FileName(p) = a_png

SpecRerun == InitRerun /\ [][NextRerun]_vars

\* C16: when dest_dir/name is the source file itself, the file already sitting at
\* its destination, the path resolved for it names that file under its own name,
\* not a numbered one, and handling the file leaves the tree as it was.
C16_NoOpPassThrough ==
  [][ Handles /\ Last(handled').state \in {"Moved", "WouldMove"} =>
        LET h == Last(handled')
            name == FileName(h.file)
            destination == config.categories[FirstMatching(name)].settings.destination
            dest_dir == DestDir(fs, h.file, destination, config)
            candidate == Walk(fs, <<>>, Append(dest_dir, name))
        IN  candidate.ok /\ candidate.path = h.file =>
              /\ FileName(h.ret) = name
              /\ Walk(fs, <<>>, h.ret).path = h.file
              /\ fs' = fs
              /\ IsFile(fs', h.file) /\ fs'[h.file].id = h.id ]_vars

\* C17: after a real run that completed without a filesystem error, a second run
\* with the same RuleSet, directory and traversal mode changes nothing: each file
\* it handles is ignored, unmatched or moved onto itself, and the tree stays as
\* the first run left it.
C17_RerunIdempotent ==
  /\ Len(runs) = 1
  /\ ~runs[1].args.dry_run
  /\ \A i \in DOMAIN runs[1].handled : runs[1].handled[i].state # "Errored"
  => /\ fs = fs0
     /\ \A i \in DOMAIN handled :
          \/ handled[i].state \in {"Ignored", "Unmatched"}
          \/ handled[i].state \in {"Raised", "Errored"}
          \/ handled[i].state = "Moved" /\ IsFile(fs, handled[i].file)
                                        /\ fs[handled[i].file].id = handled[i].id

\* C18: from one snapshot, with one RuleSet, traversal mode and order of
\* enumeration, the path a dry run reports for a file is the path a real run
\* without failures moves that file to.
C18_DryRunFidelity ==
  Len(runs) = 1 /\ runs[1].args.dry_run =>
    \A i \in DOMAIN handled :
      /\ \A k \in 1..i : /\ handled[k].file = runs[1].handled[k].file
                         /\ handled[k].state \notin {"Raised", "Errored"}
      /\ handled[i].state = "Moved"
      => /\ runs[1].handled[i].state = "WouldMove"
         /\ runs[1].handled[i].ret = handled[i].ret

\* ------------------------------------------- the editor and the generator
\* A category's 'extensions', a JSON array, is the set of its elements: the
\* programs only test membership and emptiness.

\* str.strip(): without the leading and trailing whitespace
Whitespace == {" ", "\t", "\n"}

Strip(s) ==
  LET keep == {i \in 1..Len(s) : s[i] \notin Whitespace}
  IN  IF keep = {} THEN <<>>
      ELSE SubSeq(s, CHOOSE i \in keep : \A j \in keep : i <= j,
                     CHOOSE i \in keep : \A j \in keep : i >= j)

\* str.split('\n'), cur being the line read so far
RECURSIVE Split(_, _)
Split(s, cur) ==
  IF s = <<>> THEN <<cur>>
  ELSE IF Head(s) = "\n" THEN <<cur>> \o Split(Tail(s), <<>>)
  ELSE Split(Tail(s), Append(cur, Head(s)))

\* [x.strip() for x in text.split('\n') if x.strip()]
Lines(text) ==
  LET lines == Split(text, <<>>)
      stripped == [i \in 1..Len(lines) |-> Strip(lines[i])]
      NotEmpty(x) == x # <<>>
  IN  SelectSeq(stripped, NotEmpty)

\* an extension lower-cased and left without a dot
NormalizeExtensionNoDot(ext) == LowerStr(ext)

\* config_editor.py lines 314 and 365: ext.lower() if ext.startswith('.') else f'.{ext.lower()}'
NormalizeExtension(ext) ==
  IF Head(ext) = "." THEN LowerStr(ext) ELSE <<".">> \o LowerStr(ext)

\* lines 313-323 and 364-377: the settings stored for the form's values
FormSettings(name, destination, extensions_text, patterns_text, match_mode) ==
  LET extensions == Lines(extensions_text)
  IN  [extensions |-> {NormalizeExtension(extensions[i]) : i \in 1..Len(extensions)},
       patterns |-> Lines(patterns_text),
       match_mode |-> match_mode,
       destination |-> IF destination # <<>> THEN destination ELSE name]

\* categories[name] = settings on the ordered mapping: in place for a key it
\* holds, at the end for a new one
SetItem(categories, name, settings) ==
  IF \E i \in 1..Len(categories) : categories[i].name = name
    THEN [i \in 1..Len(categories) |->
            IF categories[i].name = name THEN [name |-> name, settings |-> settings]
            ELSE categories[i]]
    ELSE Append(categories, [name |-> name, settings |-> settings])

\* del categories[name]
DelItem(categories, name) ==
  LET Other(c) == c.name # name
  IN  SelectSeq(categories, Other)

\* ConfigEditor.load_config: the file's object, or the defaults when there is no file
EditorLoadConfig(file) ==
  IF IsNoFile(file)
    THEN [categories |-> <<>>,
          rules |-> [ignore_hidden |-> TRUE, ignore_system |-> TRUE,
                     create_subdirs_by_date |-> FALSE, dry_run |-> FALSE,
                     target_directory |-> ""]]
    ELSE file

\* generate.py -----------------------------------------------------------
\* The characters of the model in code-point order, for sorted()
Ascii == <<"\t", "\n", " ", "*", "-", ".", "/">> \o Digits \o <<"?">> \o Upper \o <<"_">> \o Lower

Ord(c) == CHOOSE i \in 1..Len(Ascii) : Ascii[i] = c

\* a < b on strings
RECURSIVE StrLess(_, _)
StrLess(a, b) ==
  IF b = <<>> THEN FALSE
  ELSE IF a = <<>> THEN TRUE
  ELSE IF Head(a) # Head(b) THEN Ord(Head(a)) < Ord(Head(b))
  ELSE StrLess(Tail(a), Tail(b))

\* sorted() of a set of strings
RECURSIVE Sorted(_)
Sorted(strs) ==
  IF strs = {} THEN <<>>
  ELSE LET least == CHOOSE x \in strs : \A y \in strs \ {x} : StrLess(x, y)
       IN  <<least>> \o Sorted(strs \ {least})

IsDigit(c) == \E i \in 1..Len(Digits) : Digits[i] = c

\* re.search with re.IGNORECASE, for the kinds of regex in pattern_checks:
\* '^lit', 'lit', 'lit\d+', '^\d{4}-\d{2}-\d{2}' and '_\d+x\d+'
Search(check, name) ==
  LET lit == check.lit
      At(i) == /\ i + Len(lit) - 1 <= Len(name)
               /\ LowerStr(SubSeq(name, i, i + Len(lit) - 1)) = LowerStr(lit)
  IN  IF check.kind = "prefix" THEN At(1)
      ELSE IF check.kind = "contains" THEN \E i \in 1..Len(name) : At(i)
      ELSE IF check.kind = "digits"
        THEN \E i \in 1..Len(name) :
               At(i) /\ i + Len(lit) <= Len(name) /\ IsDigit(name[i + Len(lit)])
      ELSE IF check.kind = "date"
        THEN /\ Len(name) >= 10
             /\ \A i \in {1, 2, 3, 4, 6, 7, 9, 10} : IsDigit(name[i])
             /\ name[5] = "-" /\ name[8] = "-"
      ELSE \E i, j \in 1..Len(name) :
             /\ i + 1 < j /\ j < Len(name)
             /\ name[i] = "_"
             /\ \A k \in (i + 1)..(j - 1) : IsDigit(name[k])
             /\ LowerChar(name[j]) = "x"
             /\ IsDigit(name[j + 1])

\* lines 49-63: pattern_checks, each regex by its kind and literal
PatternChecks ==
  << [kind |-> "prefix", lit |-> <<"S", "c", "r", "e", "e", "n", "s", "h", "o", "t">>,
      pattern |-> <<"S", "c", "r", "e", "e", "n", "s", "h", "o", "t", "*">>],
     [kind |-> "prefix", lit |-> <<"S", "c", "r", "e", "e", "n", " ", "S", "h", "o", "t">>,
      pattern |-> <<"S", "c", "r", "e", "e", "n", " ", "S", "h", "o", "t", "*">>],
     [kind |-> "digits", lit |-> <<"I", "M", "G", "_">>,
      pattern |-> <<"I", "M", "G", "_", "*">>],
     [kind |-> "digits", lit |-> <<"D", "S", "C">>,
      pattern |-> <<"D", "S", "C", "*">>],
     [kind |-> "prefix", lit |-> <<"d", "o", "w", "n", "l", "o", "a", "d">>,
      pattern |-> <<"d", "o", "w", "n", "l", "o", "a", "d", "*">>],
     [kind |-> "date", lit |-> <<>>,
      pattern |-> <<"*">>],
     [kind |-> "resolution", lit |-> <<>>,
      pattern |-> <<"*", "_", "*", "x", "*">>],
     [kind |-> "prefix", lit |-> <<"t", "e", "m", "p">>,
      pattern |-> <<"t", "e", "m", "p", "*">>],
     [kind |-> "prefix", lit |-> <<"t", "m", "p">>,
      pattern |-> <<"t", "m", "p", "*">>],
     [kind |-> "contains", lit |-> <<"b", "a", "c", "k", "u", "p">>,
      pattern |-> <<"*", "b", "a", "c", "k", "u", "p", "*">>],
     [kind |-> "contains", lit |-> <<"d", "r", "a", "f", "t">>,
      pattern |-> <<"*", "d", "r", "a", "f", "t", "*">>],
     [kind |-> "contains", lit |-> <<"f", "i", "n", "a", "l">>,
      pattern |-> <<"*", "f", "i", "n", "a", "l", "*">>],
     [kind |-> "contains", lit |-> <<"c", "o", "p", "y">>,
      pattern |-> <<"*", "c", "o", "p", "y", "*">>] >>

\* detect_patterns: the patterns of the checks that more than 30% of the file
\* names match, in the order of the checks (the patterns are distinct)
DetectPatterns(filenames) ==
  LET Frequent(check) ==
        10 * Cardinality({n \in filenames : Search(check, n)}) > 3 * Cardinality(filenames)
      found == SelectSeq(PatternChecks, Frequent)
  IN  [i \in 1..Len(found) |-> found[i].pattern]

\* analyze_directory, lines 34-39: the files scanned in a category folder
Scanned(tree, folder) ==
  {p \in DOMAIN tree : Len(p) = 2 /\ p[1] = folder /\ IsFile(tree, p) /\ Head(p[2]) # "."}

\* lines 24-39: the keys of folder_data, the folders that are not hidden and hold
\* a scanned file
Folders(tree) ==
  {p[1] : p \in {q \in DOMAIN tree : /\ Len(q) = 1 /\ tree[q].kind = "dir"
                                      /\ Head(q[1]) # "."
                                      /\ Scanned(tree, q[1]) # {}}}

\* lines 36-38: the lower-cased suffixes of the folder's files that have one
FolderExtensions(tree, folder) ==
  {LowerStr(PathSuffix(FileName(p))) : p \in Scanned(tree, folder)} \ {<<>>}

\* generate_config, lines 99-118: the categories after the folders of the sorted
\* list from the k-th on
RECURSIVE AddFolders(_, _, _, _)
AddFolders(categories, tree, folders, k) ==
  IF k > Len(folders) THEN categories
  ELSE LET folder == folders[k]
           extensions == FolderExtensions(tree, folder)
           patterns == DetectPatterns({FileName(p) : p \in Scanned(tree, folder)})
           match_mode == IF extensions # {} /\ patterns # <<>> THEN "either"
                         ELSE IF extensions # {} THEN "extension"
                         ELSE "pattern"
       IN  IF extensions = {} /\ patterns = <<>>
             THEN AddFolders(categories, tree, folders, k + 1)
             ELSE AddFolders(SetItem(categories, LowerStr(folder),
                                     [extensions |-> extensions, patterns |-> patterns,
                                      match_mode |-> match_mode, destination |-> folder]),
                             tree, folders, k + 1)

\* generate_config: the object written to the configuration file
GenerateConfig(tree) ==
  [categories |-> AddFolders(<<>>, tree, Sorted(Folders(tree)), 1),
   rules |-> [ignore_hidden |-> TRUE, ignore_system |-> TRUE,
              create_subdirs_by_date |-> FALSE, dry_run |-> FALSE,
              target_directory |-> "dir"]]

\* The folders and files the generator's directory is drawn from: an upper-case
\* suffix, a camera name, a file without a suffix and a hidden file
Docs == <<"D", "o", "c", "s">>

GeneratorPool ==
  << <<Images, A_PNG>>,
     <<Images, <<"I", "M", "G", "_", "1", ".", "p", "n", "g">> >>,
     <<Docs, b_txt>>,
     <<Docs, <<"a">> >>,
     <<Images, dot_a_png>> >>

\* The directories generated from: empty, one folder, two folders
GeneratorSnapshots == { {}, {1, 2, 5}, {3, 4}, {1, 3} }

GeneratorTree(S) ==
  LET paths == {GeneratorPool[i] : i \in S}
      dirs == (UNION {Prefixes(p) : p \in paths}) \ paths
  IN  [p \in paths \cup dirs |->
         IF p \in paths
           THEN FileEntry(CHOOSE k \in S : GeneratorPool[k] = p, 638)
           ELSE DirEntry]

\* A configuration file written by hand, its extensions as typed
HandWritten ==
  [categories |->
     << [name |-> <<"d","o","c","s">>,
         settings |-> [extensions |-> {<<".","t","x","t">>, <<".","P","N","G">>},
                       patterns |-> <<>>, match_mode |-> "extension",
                       destination |-> Docs]] >>,
   rules |-> Rules(TRUE, TRUE, FALSE, FALSE)]

\* What the form fields hold when Add or Update is pressed
NameInputs == { <<"i","m","a","g","e","s">>, <<" ","d","o","c","s">> }

DestinationInputs == { <<>>, Images \o <<" ">> }

ExtensionTexts ==
  { <<>>,
    <<".","p","n","g">>,
    <<"P","N","G","\n"," ",".","T","x","t"," ","\n","\n">> }

PatternTexts == { <<" ","a","*","\n","\n","S","*","g">> }

FormModes == {"extension"}

\* ConfigEditor.__init__ and on_mount: the configuration loaded, the first
\* category selected
EditorStart ==
  /\ pc = "editor_start"
  /\ config' = EditorLoadConfig(cfgfile)
  /\ current_category' = IF config'.categories # <<>> THEN config'.categories[1].name
                         ELSE None
  /\ pc' = "editor"
  /\ UNCHANGED <<fs, cfgfile, stats, args, directory, files, handled, exit_code, call,
                 fs0, runs>>

\* on_list_view_selected
SelectCategory ==
  /\ pc = "editor"
  /\ \E i \in DOMAIN config.categories : current_category' = config.categories[i].name
  /\ UNCHANGED <<fs, cfgfile, config, stats, args, directory, files, handled, pc,
                 exit_code, call, fs0, runs>>

\* add_category
AddCategory ==
  /\ pc = "editor"
  /\ \E name_value \in NameInputs \cup {<<" ">>}, destination_value \in DestinationInputs,
        extensions_text \in ExtensionTexts, patterns_text \in PatternTexts,
        match_mode \in FormModes :
       LET name == Strip(name_value)
           destination == Strip(destination_value)
       IN  IF name = <<>>
             THEN UNCHANGED <<config, cfgfile, current_category>>
             ELSE /\ config' = [config EXCEPT !.categories =
                                  SetItem(@, name, FormSettings(name, destination,
                                            extensions_text, patterns_text, match_mode))]
                  /\ cfgfile' = config'
                  /\ current_category' = None
  /\ UNCHANGED <<fs, stats, args, directory, files, handled, pc, exit_code, call, fs0, runs>>

\* update_category
UpdateCategory ==
  /\ pc = "editor"
  /\ \E name_value \in NameInputs, destination_value \in DestinationInputs,
        extensions_text \in ExtensionTexts, patterns_text \in PatternTexts,
        match_mode \in FormModes :
       LET name == Strip(name_value)
           destination == Strip(destination_value)
           kept == IF name # current_category
                     THEN DelItem(config.categories, current_category)
                     ELSE config.categories
       IN  IF current_category \in {None, <<>>}
             THEN UNCHANGED <<config, cfgfile, current_category>>
             ELSE /\ config' = [config EXCEPT !.categories =
                                  SetItem(kept, name, FormSettings(name, destination,
                                            extensions_text, patterns_text, match_mode))]
                  /\ cfgfile' = config'
                  /\ current_category' = name
  /\ UNCHANGED <<fs, stats, args, directory, files, handled, pc, exit_code, call, fs0, runs>>

\* delete_category
DeleteCategory ==
  /\ pc = "editor"
  /\ IF current_category \in {None, <<>>}
       THEN UNCHANGED <<config, cfgfile, current_category>>
       ELSE /\ config' = [config EXCEPT !.categories = DelItem(@, current_category)]
            /\ cfgfile' = config'
            /\ current_category' = None
  /\ UNCHANGED <<fs, stats, args, directory, files, handled, pc, exit_code, call, fs0, runs>>

\* generate.py over the tree, writing the configuration file
Generate ==
  /\ pc \in {"editor_start", "editor"}
  /\ IF Folders(fs) = {} THEN UNCHANGED cfgfile ELSE cfgfile' = GenerateConfig(fs)
  /\ UNCHANGED <<fs, config, stats, args, directory, files, handled, pc, exit_code, call,
                 fs0, runs, current_category>>

\* An organizer constructed from the configuration file, matches_category called
\* with one of its categories
MatchSaved ==
  /\ pc \in {"editor_start", "editor"}
  /\ ~IsNoFile(cfgfile)
  /\ \E name \in {A_PNG, b_txt}, i \in DOMAIN cfgfile.categories :
       call' = [fn |-> "matches_category", name |-> name,
                settings |-> cfgfile.categories[i].settings,
                result |-> MatchesCategory(name, cfgfile.categories[i].settings)]
  /\ pc' = "classified"
  /\ UNCHANGED <<fs, cfgfile, config, stats, args, directory, files, handled, exit_code,
                 fs0, runs, current_category>>

NextEditor ==
  \/ EditorStart \/ SelectCategory \/ AddCategory \/ UpdateCategory \/ DeleteCategory
  \/ Generate \/ MatchSaved

\* No configuration file or a hand-written one, and a directory for the generator
InitEditor ==
  /\ \E S \in GeneratorSnapshots : fs = GeneratorTree(S)
  /\ cfgfile \in {NoFile, HandWritten}
  /\ config = NoFile
  /\ current_category = None
  /\ pc = "editor_start"
  /\ args = [directory |-> "dir", recursive |-> FALSE, dry_run |-> FALSE]
  /\ stats = ZeroStats
  /\ directory = ""
  /\ files = {}
  /\ handled = <<>>
  /\ exit_code = -1
  /\ call = [fn |-> "none"]
  /\ fs0 = fs
  /\ runs = <<>>

SpecEditor == InitEditor /\ [][NextEditor]_vars

\* The categories of a configuration object, none for no file
Categories(file) ==
  IF IsNoFile(file) THEN {} ELSE {file.categories[i] : i \in DOMAIN file.categories}

\* Lower-case and beginning with a dot
Normalized(ext) ==
  /\ ext # <<>>
  /\ ext[1] = "."
  /\ \A i \in 1..Len(ext) : \A k \in 1..Len(Upper) : ext[i] # Upper[k]

\* C14: every category that a step of the editor (add_category, update_category)
\* or the generator writes, into the editor's configuration or the file, has only
\* lower-case, dot-prefixed extensions, so a configuration built by them alone
\* has no other entry; and matches_category tests the file's lower-cased suffix
\* against the entries as they are stored: a category of which no entry is
\* lower-case and dot-prefixed matches no file by extension.
C14_ExtensionsNormalized ==
  [][ /\ \A c \in (Categories(config') \cup Categories(cfgfile'))
                    \ (Categories(config) \cup Categories(cfgfile)) :
           \A ext \in c.settings.extensions : Normalized(ext)
      /\ (Categories(config) \cup Categories(cfgfile) = {}) =>
           \A c \in Categories(config') \cup Categories(cfgfile') :
             \A ext \in c.settings.extensions : Normalized(ext)
      /\ call' # call /\ call'.settings.match_mode = "extension" =>
           /\ call'.result = (LowerStr(PathSuffix(call'.name)) \in call'.settings.extensions)
           /\ (\A ext \in call'.settings.extensions : ~Normalized(ext)) => ~call'.result
    ]_vars

\* C14's case: the editor saved a category whose extensions were typed as 'PNG'
\* and ' .Txt ', and the file A.PNG was matched against it
C14_Witness ==
  /\ call.fn = "matches_category"
  /\ call.name = A_PNG
  /\ call.settings.extensions = {<<".","p","n","g">>, <<".","t","x","t">>}
  /\ call.result = TRUE
  /\ \E c \in Categories(cfgfile) : c.settings = call.settings

=====
